---- MODULE Spec2Model ----
(***************************************************************************)
(* Model of src/bot.py: the channel monitor that extracts title, course    *)
(* and attribution from message captions and stores one row per            *)
(* recognised message, and the command handlers that read the rows back    *)
(* and render them as text.                                                *)
(*                                                                         *)
(* Text.  A Python string is a sequence of characters.  Each of the four   *)
(* literal markers of the regular expressions is kept as one character,    *)
(* since the patterns only ever match a marker as a whole.                 *)
(* A rendered message is a sequence of lines; a line keeps the values      *)
(* that the f-string interpolates (title, message id, course) next to the  *)
(* kind of line it is.                                                     *)
(***************************************************************************)
EXTENDS Integers, Sequences, FiniteSets, TLC

VARIABLES
    store,      \* rows of table media_files, in rowid order
    seq,        \* AUTOINCREMENT counter: the largest id ever assigned
    now,        \* CURRENT_TIMESTAMP, in whole seconds
    message,    \* the message handed to the last handler, if it was the monitor's
    lastOp,     \* the handler that ran last
    user,       \* update.effective_user.id, if the last handler was a command
    replies,    \* texts delivered by update.message.reply_text, last handler
    sent,       \* texts delivered to the channel by send_message, last handler
    logged,     \* whether the last handler wrote its "Stored ..." log entry
    raised,     \* whether the last handler ended by raising
    processed,  \* number of qualifying message-processings completed so far
    queried,    \* whether the last handler called get_media_files
    boot,       \* how far TelegramBot.run has come, and whether the table exists
    pending,    \* rows written by an INSERT whose connection has not committed
    fetched     \* rows returned by the last fetchall() of get_media_files

vars == <<store, seq, now, message, lastOp, user, replies, sent, logged,
          raised, processed, queried, boot, pending, fetched>>

-----------------------------------------------------------------------------
(* Bounds *)

MaxRecords == 6

MaxTime == 1

MaxCaptionLen == 4

\* rows of the store in the specifications of one concern (SpecMix, SpecTxn,
\* SpecRun)
MaxShortRecords == 3

-----------------------------------------------------------------------------
(* Characters and strings *)

NL == "\n"

SP == " "

\* video_pattern's literal prefix
VideoTitleMarker == "<video-title>"

\* pdf_pattern's literal prefix
PdfTitleMarker == "<pdf-title>"

\* course_pattern's literal prefix
CourseMarker == "<course>"

\* extracted_pattern's literal prefix
ExtractedByMarker == "<extracted-by>"

\* the characters that \s matches
IsSpace(c) == c \in {SP, NL}

\* the default of extract_course and extract_extracted_by
Unknown == <<"U", "n", "k", "n", "o", "w", "n">>

\* Python's None for a value that is otherwise a string
None == [some |-> FALSE, val |-> <<>>]

Some(v) == [some |-> TRUE, val |-> v]

\* Python truthiness of an optional string: None and "" are falsy
Truthy(o) == o.some /\ o.val # <<>>

\* str.strip(): drop leading and trailing whitespace
RECURSIVE lstrip(_)
lstrip(s) ==
    IF s # <<>> /\ IsSpace(Head(s)) THEN lstrip(Tail(s)) ELSE s

RECURSIVE rstrip(_)
rstrip(s) ==
    IF s # <<>> /\ IsSpace(s[Len(s)]) THEN rstrip(SubSeq(s, 1, Len(s) - 1)) ELSE s

strip(s) == rstrip(lstrip(s))

-----------------------------------------------------------------------------
(* re.search(marker \s* ([^\n]+), s) *)

\* number of consecutive whitespace characters of s from position j on
RECURSIVE SpaceRun(_, _)
SpaceRun(s, j) ==
    IF j <= Len(s) /\ IsSpace(s[j]) THEN 1 + SpaceRun(s, j + 1) ELSE 0

\* last position of the run of non-newline characters that starts at k
RECURSIVE LineEnd(_, _)
LineEnd(s, k) ==
    IF k + 1 <= Len(s) /\ s[k + 1] # NL THEN LineEnd(s, k + 1) ELSE k

\* The numbers n of characters that \s* may consume after the marker at i so
\* that [^\n]+ still matches at least one character.
SpaceChoices(s, i) ==
    {n \in 0..SpaceRun(s, i + 1) : i + 1 + n <= Len(s) /\ s[i + 1 + n] # NL}

\* Whether the pattern matches with its marker at position i.
MatchesAt(marker, s, i) ==
    /\ s[i] = marker
    /\ SpaceChoices(s, i) # {}

\* group(1) of the match at i: \s* is greedy, so the engine keeps the
\* largest choice that lets the rest match; [^\n]+ is greedy to the line end.
GroupAt(s, i) ==
    LET n == CHOOSE n \in SpaceChoices(s, i) : \A k \in SpaceChoices(s, i) : k <= n
        start == i + 1 + n
    IN  SubSeq(s, start, LineEnd(s, start))

\* re.search: the leftmost position with a match; group(1) or None.
re_search(marker, s) ==
    LET hits == {i \in 1..Len(s) : MatchesAt(marker, s, i)}
    IN  IF hits = {} THEN None
        ELSE Some(GroupAt(s, CHOOSE i \in hits : \A k \in hits : i <= k))

\* extract_title with the whole caption as the title of last resort
extract_title_fallback(caption) ==
    LET video_match == re_search(VideoTitleMarker, caption)
        pdf_match == re_search(PdfTitleMarker, caption)
    IN  IF video_match.some THEN Some(strip(video_match.val))
        ELSE IF pdf_match.some THEN Some(strip(pdf_match.val))
        ELSE Some(strip(caption))

\* extract_title without the strip() of the video branch
extract_title_unstripped(caption) ==
    LET video_match == re_search(VideoTitleMarker, caption)
        pdf_match == re_search(PdfTitleMarker, caption)
    IN  IF video_match.some THEN Some(video_match.val)
        ELSE IF pdf_match.some THEN Some(strip(pdf_match.val))
        ELSE None

extract_title(caption) ==
    LET video_match == re_search(VideoTitleMarker, caption)
        pdf_match == re_search(PdfTitleMarker, caption)
    IN  IF video_match.some THEN Some(strip(video_match.val))
        ELSE IF pdf_match.some THEN Some(strip(pdf_match.val))
        ELSE None

extract_course(caption) ==
    LET match == re_search(CourseMarker, caption)
    IN  IF match.some THEN strip(match.val) ELSE Unknown

extract_extracted_by(caption) ==
    LET match == re_search(ExtractedByMarker, caption)
    IN  IF match.some THEN strip(match.val) ELSE Unknown

-----------------------------------------------------------------------------
(* Messages of the monitored channel *)

\* message.video / message.document: an attachment with its file_id, or None
Attachment(file_id) == Some(file_id)

Message(id, video, document, caption) ==
    [id |-> id, video |-> video, document |-> document, caption |-> caption]

\* The messages the channel delivers in the system specification.  Two are
\* stored; the others exercise each way of not being stored.
VideoLesson ==
    Message(1, Attachment(<<"v", "1">>), None,
            Some(<<VideoTitleMarker, SP, "a", NL, CourseMarker, SP, "c", NL,
                   ExtractedByMarker, SP, "e">>))

PdfBlankCourse ==
    Message(2, None, Attachment(<<"d", "2">>),
            Some(<<PdfTitleMarker, SP, "b", NL, CourseMarker, SP>>))

TextOnly ==
    Message(3, None, None, Some(<<VideoTitleMarker, SP, "a">>))

VideoNoCaption ==
    Message(4, Attachment(<<"v", "4">>), None, None)

VideoNoTitle ==
    Message(5, Attachment(<<"v", "5">>), None, Some(<<CourseMarker, SP, "c">>))

PdfBlankTitle ==
    Message(6, None, Attachment(<<"d", "6">>), Some(<<VideoTitleMarker, SP, NL>>))

\* A document of the course of VideoLesson, for summaries whose course
\* blocks hold both kinds.
PdfLesson ==
    Message(7, None, Attachment(<<"d", "7">>),
            Some(<<PdfTitleMarker, SP, "b", NL, CourseMarker, SP, "c">>))

MixCatalog == {VideoLesson, PdfBlankCourse, PdfLesson}

Catalog ==
    {VideoLesson, PdfBlankCourse, TextOnly, VideoNoCaption, VideoNoTitle,
     PdfBlankTitle}

\* The characters of the captions of the single-message specification.
Alphabet ==
    {VideoTitleMarker, PdfTitleMarker, CourseMarker, ExtractedByMarker, NL, SP, "a"}

Strings(n) == UNION {[1..k -> Alphabet] : k \in 0..n}

Captions == {None} \cup {Some(c) : c \in Strings(MaxCaptionLen)}

Attachments ==
    {<<None, None>>, <<Attachment(<<"v">>), None>>, <<None, Attachment(<<"d">>)>>,
     <<Attachment(<<"v">>), Attachment(<<"d">>)>>}

BoundedMessages ==
    {Message(1, a[1], a[2], c) : a \in Attachments, c \in Captions}

-----------------------------------------------------------------------------
(* The store: table media_files *)

\* One row; the comments give the column index the handlers read it by.
Row(id, message_id, file_type, title, course, extracted_by, file_id, timestamp) ==
    [id |-> id,                     \* 0
     message_id |-> message_id,     \* 1
     file_type |-> file_type,       \* 2
     title |-> title,               \* 3
     course |-> course,             \* 4
     extracted_by |-> extracted_by, \* 5
     file_id |-> file_id,           \* 6
     timestamp |-> timestamp]       \* 7

\* store_media_data as INSERT OR IGNORE under a unique message_id
store_media_data_ignore_duplicate(message_id, file_type, title, course, extracted_by, file_id) ==
    IF \E i \in 1..Len(store) : store[i].message_id = message_id
    THEN UNCHANGED <<store, seq>>
    ELSE /\ store' = Append(store, Row(seq + 1, message_id, file_type, title,
                                       course, extracted_by, file_id, now))
         /\ seq' = seq + 1

\* store_media_data as INSERT OR REPLACE under a unique message_id
store_media_data_replace(message_id, file_type, title, course, extracted_by, file_id) ==
    LET Others(r) == r.message_id # message_id
    IN  /\ store' = Append(SelectSeq(store, Others),
                           Row(seq + 1, message_id, file_type, title, course,
                               extracted_by, file_id, now))
        /\ seq' = seq + 1

\* INSERT INTO media_files ...; commit.  id comes from AUTOINCREMENT and
\* timestamp from DEFAULT CURRENT_TIMESTAMP.
store_media_data(message_id, file_type, title, course, extracted_by, file_id) ==
    /\ store' = Append(store, Row(seq + 1, message_id, file_type, title, course,
                                  extracted_by, file_id, now))
    /\ seq' = seq + 1

\* The orders in which the engine may visit rows.  ORDER BY timestamp leaves
\* the order of rows with equal timestamps to the engine: a forward scan
\* with a stable sort yields them by ascending rowid, a reverse scan by
\* descending rowid.
Scans == {"forward", "reverse"}

Reverse(s) == [i \in 1..Len(s) |-> s[Len(s) + 1 - i]]

\* ORDER BY timestamp DESC over rows in visiting order.  The sort is stable:
\* a row goes behind the rows with a later timestamp and ahead of every row
\* visited after it that has the same or an earlier one.
RECURSIVE OrderByTimestampDesc(_)
OrderByTimestampDesc(rows) ==
    IF rows = <<>> THEN <<>>
    ELSE LET first == Head(rows)
             rest == OrderByTimestampDesc(Tail(rows))
             later == Cardinality({i \in 1..Len(rest) :
                                     rest[i].timestamp > first.timestamp})
         IN  SubSeq(rest, 1, later) \o <<first>> \o SubSeq(rest, later + 1, Len(rest))

\* The results get_media_files may return, one for each order of visiting.
\* file_type "" stands for the default None: no WHERE clause.
get_media_files(file_type) ==
    LET Wanted(r) == file_type = "" \/ r.file_type = file_type
        Visited(scan) == IF scan = "forward" THEN store ELSE Reverse(store)
    IN  {OrderByTimestampDesc(SelectSeq(Visited(scan), Wanted)) : scan \in Scans}

-----------------------------------------------------------------------------
(* Rendered text *)

\* config.ADMIN_ID and another user
ADMIN_ID == "admin"

Users == {ADMIN_ID, "guest"}

\* the user of a handler that has none
NoUser == "none"

\* The [:5] of post_summary's two entry loops.
SummaryCap == 5

\* One line of a text: what kind of line, and the interpolated values.
Line(kind, text, message_id) ==
    [kind |-> kind, text |-> text, message_id |-> message_id]

\* A text without interpolation, named by its wording.
Fixed(wording) == <<Line(wording, <<>>, 0)>>

Blank == Line("blank", <<>>, 0)

\* "* [{title}](https://t.me/{CHANNEL_USERNAME}/{message_id})\n"
EntryLine(file) == Line("entry", file.title, file.message_id)

\* "  Course: {course}\n"
CourseLine(file) == Line("course", file.course, 0)

\* "**{course}**\n"
CourseHeader(course) == Line("course_header", course, 0)

\* s[:n]
Slice(s, n) == SubSeq(s, 1, IF Len(s) < n THEN Len(s) ELSE n)

RECURSIVE Concat(_)
Concat(ss) == IF ss = <<>> THEN <<>> ELSE Head(ss) \o Concat(Tail(ss))

\* CourseKeys with each course at the place of its last row
RECURSIVE CourseKeys_last_seen(_)
CourseKeys_last_seen(files) ==
    IF files = <<>> THEN <<>>
    ELSE LET after == CourseKeys_last_seen(Tail(files))
             course == Head(files).course
         IN  IF \E i \in 1..Len(after) : after[i] = course
             THEN after
             ELSE <<course>> \o after

\* The keys of organized_data in insertion order: each course at the place
\* of its first row.
RECURSIVE CourseKeys(_)
CourseKeys(files) ==
    IF files = <<>> THEN <<>>
    ELSE LET before == CourseKeys(SubSeq(files, 1, Len(files) - 1))
             course == files[Len(files)].course
         IN  IF \E i \in 1..Len(before) : before[i] = course
             THEN before
             ELSE Append(before, course)

\* organized_data[course]
FilesOfCourse(files, course) ==
    LET InCourse(f) == f.course = course
    IN  SelectSeq(files, InCourse)

OfType(files, file_type) ==
    LET HasType(f) == f.file_type = file_type
    IN  SelectSeq(files, HasType)

\* CourseBlock without the [:5] of its two loops
CourseBlock_uncapped(course, files) ==
    LET videos == OfType(files, "video")
        pdfs == OfType(files, "pdf")
    IN  <<CourseHeader(course)>>
        \o (IF videos # <<>>
            THEN <<Line("videos_header", <<>>, 0)>>
                 \o [i \in 1..Len(videos) |-> EntryLine(videos[i])]
            ELSE <<>>)
        \o (IF pdfs # <<>>
            THEN <<Line("pdfs_header", <<>>, 0)>>
                 \o [i \in 1..Len(pdfs) |-> EntryLine(pdfs[i])]
            ELSE <<>>)
        \o <<Blank>>

\* One pass of the loop over organized_data.items().
CourseBlock(course, files) ==
    LET videos == OfType(files, "video")
        pdfs == OfType(files, "pdf")
        shownVideos == Slice(videos, SummaryCap)
        shownPdfs == Slice(pdfs, SummaryCap)
    IN  <<CourseHeader(course)>>
        \o (IF videos # <<>>
            THEN <<Line("videos_header", <<>>, 0)>>
                 \o [i \in 1..Len(shownVideos) |-> EntryLine(shownVideos[i])]
            ELSE <<>>)
        \o (IF pdfs # <<>>
            THEN <<Line("pdfs_header", <<>>, 0)>>
                 \o [i \in 1..Len(shownPdfs) |-> EntryLine(shownPdfs[i])]
            ELSE <<>>)
        \o <<Blank>>

\* summary_text of post_summary
SummaryText(media_files) ==
    LET keys == CourseKeys(media_files)
    IN  <<Line("summary_title", <<>>, 0), Blank>>
        \o Concat([k \in 1..Len(keys) |->
                     CourseBlock(keys[k], FilesOfCourse(media_files, keys[k]))])

\* ListingText with the [:5] of post_summary
ListingText_capped(title_kind, files) ==
    <<Line(title_kind, <<>>, 0), Blank>>
    \o Concat([i \in 1..Len(Slice(files, SummaryCap)) |->
                 <<EntryLine(files[i]), CourseLine(files[i]), Blank>>])

\* response of get_videos and get_pdfs
ListingText(title_kind, files) ==
    <<Line(title_kind, <<>>, 0), Blank>>
    \o Concat([i \in 1..Len(files) |->
                 <<EntryLine(files[i]), CourseLine(files[i]), Blank>>])

-----------------------------------------------------------------------------
(* Handlers *)

\* What a handler leaves behind for the operator, the channel and the log.
Outcome(op, u, rs, ss, lg, rz) ==
    /\ lastOp' = op
    /\ user' = u
    /\ replies' = rs
    /\ sent' = ss
    /\ logged' = lg
    /\ raised' = rz

\* A qualifying message: it carries a video or a document and its caption
\* yields a title.
Qualifies(m) ==
    /\ m.video.some \/ m.document.some
    /\ Truthy(extract_title(IF Truthy(m.caption) THEN m.caption.val ELSE <<>>))

\* process_channel_message without the test for a video or a document
process_channel_message_any_message(m) ==
    /\ message' = Some(m)
    /\ LET caption == IF Truthy(m.caption) THEN m.caption.val ELSE <<>>
           title == extract_title(caption)
       IN  IF Truthy(title)
           THEN /\ Len(store) < MaxRecords
                /\ store_media_data(m.id, IF m.video.some THEN "video" ELSE "pdf",
                                    title.val, extract_course(caption),
                                    extract_extracted_by(caption),
                                    IF m.video.some THEN m.video.val
                                    ELSE m.document.val)
                /\ Outcome("process", NoUser, <<>>, <<>>, TRUE, FALSE)
           ELSE /\ UNCHANGED <<store, seq>>
                /\ Outcome("process", NoUser, <<>>, <<>>, FALSE, FALSE)
    /\ processed' = IF Qualifies(m) THEN processed + 1 ELSE processed
    /\ queried' = FALSE
    /\ UNCHANGED <<now, boot, pending, fetched>>

\* process_channel_message with the kind taken from the title marker that
\* matched, and the file id of the payload of that kind
process_channel_message_kind_by_marker(m) ==
    /\ message' = Some(m)
    /\ LET caption == IF Truthy(m.caption) THEN m.caption.val ELSE <<>>
           title == extract_title(caption)
           by_video == re_search(VideoTitleMarker, caption).some
       IN  IF (m.video.some \/ m.document.some) /\ Truthy(title)
           THEN /\ Len(store) < MaxRecords
                /\ store_media_data(m.id, IF by_video THEN "video" ELSE "pdf",
                                    title.val, extract_course(caption),
                                    extract_extracted_by(caption),
                                    IF by_video THEN m.video.val
                                    ELSE m.document.val)
                /\ Outcome("process", NoUser, <<>>, <<>>, TRUE, FALSE)
           ELSE /\ UNCHANGED <<store, seq>>
                /\ Outcome("process", NoUser, <<>>, <<>>, FALSE, FALSE)
    /\ processed' = IF Qualifies(m) THEN processed + 1 ELSE processed
    /\ queried' = FALSE
    /\ UNCHANGED <<now, boot, pending, fetched>>

\* process_channel_message with the store call wrapped in try/except: a
\* failed write is dropped and the handler returns normally
process_channel_message_swallow(m) ==
    /\ message' = Some(m)
    /\ LET caption == IF Truthy(m.caption) THEN m.caption.val ELSE <<>>
           title == extract_title(caption)
       IN  IF (m.video.some \/ m.document.some) /\ Truthy(title)
           THEN \E dbOk \in BOOLEAN :
                  IF dbOk
                  THEN /\ Len(store) < MaxRecords
                       /\ store_media_data(m.id,
                                           IF m.video.some THEN "video" ELSE "pdf",
                                           title.val, extract_course(caption),
                                           extract_extracted_by(caption),
                                           IF m.video.some THEN m.video.val
                                           ELSE m.document.val)
                       /\ Outcome("process", NoUser, <<>>, <<>>, TRUE, FALSE)
                  ELSE /\ UNCHANGED <<store, seq>>
                       /\ Outcome("process", NoUser, <<>>, <<>>, FALSE, FALSE)
           ELSE /\ UNCHANGED <<store, seq>>
                /\ Outcome("process", NoUser, <<>>, <<>>, FALSE, FALSE)
    /\ processed' = IF Qualifies(m) /\ ~raised' THEN processed + 1 ELSE processed
    /\ queried' = FALSE
    /\ UNCHANGED <<now, boot, pending, fetched>>

\* sqlite3 may fail to open or write the database file (dbOk false): connect
\* or execute then raises inside store_media_data, and the exception leaves
\* the handler before the row and the log entry exist.
process_channel_message(m) ==
    /\ message' = Some(m)
    /\ IF m.video.some \/ m.document.some
       THEN LET caption == IF Truthy(m.caption) THEN m.caption.val ELSE <<>>
                title == extract_title(caption)
                course == extract_course(caption)
                extracted_by == extract_extracted_by(caption)
            IN  IF Truthy(title)
                THEN LET file_type == IF m.video.some THEN "video" ELSE "pdf"
                         file_id == IF m.video.some THEN m.video.val
                                    ELSE m.document.val
                     IN  \E dbOk \in BOOLEAN :
                           IF dbOk
                           THEN /\ Len(store) < MaxRecords
                                /\ store_media_data(m.id, file_type, title.val,
                                                    course, extracted_by, file_id)
                                /\ Outcome("process", NoUser, <<>>, <<>>, TRUE, FALSE)
                           ELSE /\ UNCHANGED <<store, seq>>
                                /\ Outcome("process", NoUser, <<>>, <<>>, FALSE, TRUE)
                ELSE /\ UNCHANGED <<store, seq>>
                     /\ Outcome("process", NoUser, <<>>, <<>>, FALSE, FALSE)
       ELSE /\ UNCHANGED <<store, seq>>
            /\ Outcome("process", NoUser, <<>>, <<>>, FALSE, FALSE)
    /\ processed' = IF Qualifies(m) /\ ~raised' THEN processed + 1 ELSE processed
    /\ queried' = FALSE
    /\ UNCHANGED <<now, boot, pending, fetched>>

start(u) ==
    /\ IF u # ADMIN_ID
       THEN Outcome("start", u, <<Fixed("You are not authorized to use this bot.")>>,
                    <<>>, FALSE, FALSE)
       ELSE Outcome("start", u, <<Fixed("Bot started! ...")>>, <<>>, FALSE, FALSE)
    /\ message' = None
    /\ queried' = FALSE
    /\ UNCHANGED <<store, seq, now, processed, boot, pending, fetched>>

\* The transport may deliver the rendered text or fail to (sendOk): for
\* post_summary that is send_message inside the try, for the listings the
\* reply_text of the response.  Replies of a fixed text are delivered.
post_summary(u) ==
    /\ IF u # ADMIN_ID
       THEN Outcome("post_summary", u,
                    <<Fixed("You are not authorized to use this command.")>>,
                    <<>>, FALSE, FALSE)
       ELSE \E media_files \in get_media_files("") :
              IF media_files = <<>>
              THEN Outcome("post_summary", u,
                           <<Fixed("No media files found in database.")>>,
                           <<>>, FALSE, FALSE)
              ELSE \E sendOk \in BOOLEAN :
                     IF sendOk
                     THEN Outcome("post_summary", u,
                                  <<Fixed("Summary posted successfully!")>>,
                                  <<SummaryText(media_files)>>, FALSE, FALSE)
                     ELSE Outcome("post_summary", u,
                                  <<Fixed("Error posting summary: ...")>>,
                                  <<>>, FALSE, FALSE)
    /\ message' = None
    /\ queried' = (u = ADMIN_ID)
    /\ UNCHANGED <<store, seq, now, processed, boot, pending, fetched>>

\* Listing without the test for an empty result
Listing_always_renders(op, file_type, title_kind, none_found, u) ==
    /\ IF u # ADMIN_ID
       THEN Outcome(op, u, <<Fixed("You are not authorized to use this command.")>>,
                    <<>>, FALSE, FALSE)
       ELSE \E files \in get_media_files(file_type) :
              \E sendOk \in BOOLEAN :
                IF sendOk
                THEN Outcome(op, u, <<ListingText(title_kind, files)>>, <<>>,
                             FALSE, FALSE)
                ELSE Outcome(op, u, <<>>, <<>>, FALSE, TRUE)
    /\ message' = None
    /\ queried' = (u = ADMIN_ID)
    /\ UNCHANGED <<store, seq, now, processed, boot, pending, fetched>>

\* Listing without the comparison of the user's id with ADMIN_ID
Listing_unchecked(op, file_type, title_kind, none_found, u) ==
    /\ \E files \in get_media_files(file_type) :
          IF files = <<>>
          THEN Outcome(op, u, <<Fixed(none_found)>>, <<>>, FALSE, FALSE)
          ELSE \E sendOk \in BOOLEAN :
                 IF sendOk
                 THEN Outcome(op, u, <<ListingText(title_kind, files)>>, <<>>,
                              FALSE, FALSE)
                 ELSE Outcome(op, u, <<>>, <<>>, FALSE, TRUE)
    /\ message' = None
    /\ queried' = TRUE
    /\ UNCHANGED <<store, seq, now, processed, boot, pending, fetched>>

\* The body get_videos and get_pdfs share, up to their texts.  reply_text
\* is not guarded: when it fails, its exception leaves the handler.
Listing(op, file_type, title_kind, none_found, u) ==
    /\ IF u # ADMIN_ID
       THEN Outcome(op, u, <<Fixed("You are not authorized to use this command.")>>,
                    <<>>, FALSE, FALSE)
       ELSE \E files \in get_media_files(file_type) :
              IF files = <<>>
              THEN Outcome(op, u, <<Fixed(none_found)>>, <<>>, FALSE, FALSE)
              ELSE \E sendOk \in BOOLEAN :
                     IF sendOk
                     THEN Outcome(op, u, <<ListingText(title_kind, files)>>, <<>>,
                                  FALSE, FALSE)
                     ELSE Outcome(op, u, <<>>, <<>>, FALSE, TRUE)
    /\ message' = None
    /\ queried' = (u = ADMIN_ID)
    /\ UNCHANGED <<store, seq, now, processed, boot, pending, fetched>>

get_videos(u) ==
    Listing("get_videos", "video", "all_videos_title",
            "No videos found in database.", u)

get_pdfs(u) ==
    Listing("get_pdfs", "pdf", "all_pdfs_title",
            "No PDFs found in database.", u)

\* query.answer(); the callback data is parsed and dropped.
button_handler ==
    /\ Outcome("button_handler", NoUser, <<>>, <<>>, FALSE, FALSE)
    /\ message' = None
    /\ queried' = FALSE
    /\ UNCHANGED <<store, seq, now, processed, boot, pending, fetched>>

\* A second passes.  Only a second that follows an insert is kept: while no
\* row carries the current timestamp, a later clock reading changes nothing
\* a row or a handler can tell apart.
Tick ==
    /\ now < MaxTime
    /\ store # <<>> /\ store[Len(store)].timestamp = now
    /\ now' = now + 1
    /\ UNCHANGED <<store, seq, message, lastOp, user, replies, sent, logged,
                   raised, processed, queried, boot, pending, fetched>>

-----------------------------------------------------------------------------
(* The system: any interleaving of channel messages and commands *)

\* TelegramBot.run has reached run_polling and the monitor's client has
\* started: init_db has created the table, messages and commands arrive.
Started == [pc |-> "polling", monitor |-> "started", table |-> TRUE]

Init ==
    /\ store = <<>>
    /\ seq = 0
    /\ now = 0
    /\ message = None
    /\ lastOp = "none"
    /\ user = NoUser
    /\ replies = <<>>
    /\ sent = <<>>
    /\ logged = FALSE
    /\ raised = FALSE
    /\ processed = 0
    /\ queried = FALSE
    /\ boot = Started
    /\ pending = <<>>
    /\ fetched = <<>>

Next ==
    \/ \E m \in Catalog : process_channel_message(m)
    \/ \E u \in Users : start(u)
    \/ \E u \in Users : post_summary(u)
    \/ \E u \in Users : get_videos(u)
    \/ \E u \in Users : get_pdfs(u)
    \/ button_handler
    \/ Tick

Spec == Init /\ [][Next]_vars

-----------------------------------------------------------------------------
(* One message: the handler applied once to any message of bounded caption *)

InitOne ==
    /\ store = <<>>
    /\ seq = 0
    /\ now = 0
    /\ message \in {Some(m) : m \in BoundedMessages}
    /\ lastOp = "none"
    /\ user = NoUser
    /\ replies = <<>>
    /\ sent = <<>>
    /\ logged = FALSE
    /\ raised = FALSE
    /\ processed = 0
    /\ queried = FALSE
    /\ boot = Started
    /\ pending = <<>>
    /\ fetched = <<>>

ProcessOne ==
    /\ lastOp = "none"
    /\ process_channel_message(message.val)

SpecOne == InitOne /\ [][ProcessOne]_vars

-----------------------------------------------------------------------------
(* Summaries: messages of two courses, one of them with both kinds, and the
   admin's post_summary *)

NextMix ==
    \/ \E m \in MixCatalog :
          Len(store) < MaxShortRecords /\ process_channel_message(m)
    \/ post_summary(ADMIN_ID)
    \/ Tick

SpecMix == Init /\ [][NextMix]_vars

-----------------------------------------------------------------------------
(* The store under interleaving: the statements of store_media_data and of
   get_media_files as steps of their own, each call on its own connection.
   A connection sees the rows other connections have committed; the row of
   an INSERT stays with the writing connection until its commit. *)

\* the arguments process_channel_message passes to store_media_data for m
InsertArgs(m) ==
    LET caption == IF Truthy(m.caption) THEN m.caption.val ELSE <<>>
    IN  [message_id |-> m.id,
         file_type |-> IF m.video.some THEN "video" ELSE "pdf",
         title |-> extract_title(caption).val,
         course |-> extract_course(caption),
         extracted_by |-> extract_extracted_by(caption),
         file_id |-> IF m.video.some THEN m.video.val ELSE m.document.val]

TxnCatalog == {VideoLesson, PdfBlankCourse}

\* get_media_files_fetch on the connection of the writer: it sees the row
\* that is not committed yet
get_media_files_fetch_uncommitted(file_type) ==
    /\ LET Wanted(r) == file_type = "" \/ r.file_type = file_type
           Visited(scan) == IF scan = "forward" THEN store \o pending
                            ELSE Reverse(store \o pending)
       IN  fetched' \in {OrderByTimestampDesc(SelectSeq(Visited(scan), Wanted)) :
                            scan \in Scans}
    /\ queried' = TRUE
    /\ UNCHANGED <<store, seq, now, message, lastOp, user, replies, sent, logged,
                   raised, processed, boot, pending>>

\* connect; cursor.execute(INSERT ...): the row exists on the writer's
\* connection, with its id and its timestamp.  One connection writes at a
\* time.
store_media_data_execute(m) ==
    /\ pending = <<>>
    /\ Len(store) < MaxShortRecords
    /\ LET a == InsertArgs(m)
       IN  pending' = <<Row(seq + 1, a.message_id, a.file_type, a.title, a.course,
                            a.extracted_by, a.file_id, now)>>
    /\ queried' = FALSE
    /\ UNCHANGED <<store, seq, now, message, lastOp, user, replies, sent, logged,
                   raised, processed, boot, fetched>>

\* conn.commit(); conn.close()
store_media_data_commit ==
    /\ pending # <<>>
    /\ store' = store \o pending
    /\ seq' = seq + Len(pending)
    /\ pending' = <<>>
    /\ queried' = FALSE
    /\ UNCHANGED <<now, message, lastOp, user, replies, sent, logged, raised,
                   processed, boot, fetched>>

\* commit raises, or the connection is dropped before it: the row is gone.
store_media_data_rollback ==
    /\ pending # <<>>
    /\ pending' = <<>>
    /\ queried' = FALSE
    /\ UNCHANGED <<store, seq, now, message, lastOp, user, replies, sent, logged,
                   raised, processed, boot, fetched>>

\* connect; cursor.execute(SELECT ...); cursor.fetchall(); conn.close()
get_media_files_fetch(file_type) ==
    /\ fetched' \in get_media_files(file_type)
    /\ queried' = TRUE
    /\ UNCHANGED <<store, seq, now, message, lastOp, user, replies, sent, logged,
                   raised, processed, boot, pending>>

\* A second passes after a row got the current timestamp.
TickTxn ==
    /\ now < MaxTime
    /\ \/ pending # <<>>
       \/ store # <<>> /\ store[Len(store)].timestamp = now
    /\ now' = now + 1
    /\ UNCHANGED <<store, seq, message, lastOp, user, replies, sent, logged,
                   raised, processed, queried, boot, pending, fetched>>

NextTxn ==
    \/ \E m \in TxnCatalog : store_media_data_execute(m)
    \/ store_media_data_commit
    \/ store_media_data_rollback
    \/ \E file_type \in {"", "video", "pdf"} : get_media_files_fetch(file_type)
    \/ TickTxn

SpecTxn == Init /\ [][NextTxn]_vars

-----------------------------------------------------------------------------
(* Startup: TelegramBot.run from its first statement.  boot.pc is the
   statement run is at, boot.monitor the state of the task that starts the
   monitor's client, boot.table whether media_files exists. *)

\* bot = TelegramBot(): handlers are registered, no client or poller runs,
\* and the database file of a first run has no table.
Constructed == [pc |-> "init_db", monitor |-> "created", table |-> FALSE]

InitRun ==
    /\ store = <<>>
    /\ seq = 0
    /\ now = 0
    /\ message = None
    /\ lastOp = "none"
    /\ user = NoUser
    /\ replies = <<>>
    /\ sent = <<>>
    /\ logged = FALSE
    /\ raised = FALSE
    /\ processed = 0
    /\ queried = FALSE
    /\ boot = Constructed
    /\ pending = <<>>
    /\ fetched = <<>>

Handlers ==
    <<store, seq, now, message, lastOp, user, replies, sent, logged, raised,
      processed, queried, pending, fetched>>

\* run with the init_db call left for after run_polling
run_init_db_deferred ==
    /\ boot.pc = "init_db"
    /\ boot' = [boot EXCEPT !.pc = "create_task"]
    /\ UNCHANGED Handlers

\* init_db(): a plain call, it returns when the table is committed
run_init_db ==
    /\ boot.pc = "init_db"
    /\ boot' = [boot EXCEPT !.pc = "create_task", !.table = TRUE]
    /\ UNCHANGED Handlers

\* asyncio.create_task(self.channel_monitor.start_monitoring()): the task
\* is scheduled, its body has not run
run_create_task ==
    /\ boot.pc = "create_task"
    /\ boot' = [boot EXCEPT !.pc = "run_polling", !.monitor = "scheduled"]
    /\ UNCHANGED Handlers

\* await self.application.run_polling(): run is suspended, the event loop
\* runs the scheduled task and dispatches updates to the command handlers
run_polling ==
    /\ boot.pc = "run_polling"
    /\ boot' = [boot EXCEPT !.pc = "polling"]
    /\ UNCHANGED Handlers

\* The task runs once run is suspended: pyro_client.start() completes and
\* the client delivers the channel's messages to handle_channel_message.
start_monitoring ==
    /\ boot.pc = "polling"
    /\ boot.monitor = "scheduled"
    /\ boot' = [boot EXCEPT !.monitor = "started"]
    /\ UNCHANGED Handlers

\* run_polling raises or returns: run ends and asyncio.run cancels what is
\* left of the monitor's task.
run_ends ==
    /\ boot.pc \in {"run_polling", "polling"}
    /\ boot' = [boot EXCEPT !.pc = "ended", !.monitor = "cancelled"]
    /\ UNCHANGED Handlers

NextRun ==
    \/ run_init_db
    \/ run_create_task
    \/ run_polling
    \/ start_monitoring
    \/ run_ends
    \/ /\ boot.monitor = "started"
       /\ Len(store) < MaxShortRecords
       /\ \E m \in Catalog : process_channel_message(m)
    \/ boot.pc = "polling" /\ \E u \in Users : start(u)
    \/ boot.pc = "polling" /\ \E u \in Users : post_summary(u)
    \/ boot.pc = "polling" /\ \E u \in Users : get_videos(u)
    \/ boot.pc = "polling" /\ \E u \in Users : get_pdfs(u)
    \/ boot.pc = "polling" /\ button_handler
    \/ Tick

SpecRun == InitRun /\ [][NextRun]_vars

-----------------------------------------------------------------------------
(* Vocabulary of the properties *)

Commands == {"start", "post_summary", "get_videos", "get_pdfs"}

\* the caption the handler works on: "" for an absent caption
CaptionOf(m) == IF m.caption.some THEN m.caption.val ELSE <<>>

HasMarker(marker, caption) == \E i \in 1..Len(caption) : caption[i] = marker

FirstMarker(marker, caption) ==
    CHOOSE i \in 1..Len(caption) :
        /\ caption[i] = marker
        /\ \A k \in 1..(i - 1) : caption[k] # marker

\* the text between the marker at i and the end of its line, trimmed
TrimmedRestOfLine(caption, i) == strip(SubSeq(caption, i + 1, LineEnd(caption, i)))

Admitted(m) == m.video.some \/ m.document.some

RowsOfType(file_type) == OfType(store, file_type)

\* the last step handed a message to process_channel_message
JustProcessed == lastOp = "process" /\ message.some

-----------------------------------------------------------------------------
(* C1 *)

StoredTitlesNonEmpty == \A i \in 1..Len(store) : store[i].title # <<>>

NoTitleMarkerLeavesStore ==
    (/\ lastOp' = "process"
     /\ message'.some
     /\ ~HasMarker(VideoTitleMarker, CaptionOf(message'.val))
     /\ ~HasMarker(PdfTitleMarker, CaptionOf(message'.val)))
    => store' = store

\* C1: every stored record has a non-empty title, and processing a message
\* whose caption holds neither title marker (an absent or empty caption
\* included) leaves the store as it was.
C1_TitleRequired == [](StoredTitlesNonEmpty) /\ [][NoTitleMarkerLeavesStore]_vars

\* A video message without a title marker was processed over a non-empty
\* store.
C1_Witness ==
    /\ JustProcessed
    /\ message.val.video.some
    /\ ~HasMarker(VideoTitleMarker, CaptionOf(message.val))
    /\ ~HasMarker(PdfTitleMarker, CaptionOf(message.val))
    /\ store # <<>>

-----------------------------------------------------------------------------
(* C2 *)

\* C2: the number of records equals the number of qualifying
\* message-processings performed, and no two records share an id, whatever
\* their origin message ids.
C2_OneRecordPerProcessing ==
    /\ Len(store) = processed
    /\ \A i, j \in 1..Len(store) : i # j => store[i].id # store[j].id

\* The same message was processed twice: two records with its message id.
C2_Witness ==
    \E i, j \in 1..Len(store) :
        /\ i < j
        /\ store[i].message_id = store[j].message_id
        /\ store[i].id # store[j].id

-----------------------------------------------------------------------------
(* C3 *)

\* C3: every stored record has a course and an extractedBy that are not
\* empty.
C3_CourseAndAttributionNonEmpty ==
    \A i \in 1..Len(store) :
        store[i].course # <<>> /\ store[i].extracted_by # <<>>

-----------------------------------------------------------------------------
(* C4 *)

FieldAsClaimed(marker, caption, value) ==
    /\ value = Unknown <=> ~HasMarker(marker, caption)
    /\ HasMarker(marker, caption) =>
          value = TrimmedRestOfLine(caption, FirstMarker(marker, caption))

\* C4: extract_course (extract_extracted_by) returns "Unknown" exactly when
\* its marker does not occur in the caption, and otherwise the trimmed
\* remainder of the marker's own line.
C4_FieldFromMarkerLine ==
    JustProcessed =>
        LET caption == CaptionOf(message.val)
        IN  /\ FieldAsClaimed(CourseMarker, caption, extract_course(caption))
            /\ FieldAsClaimed(ExtractedByMarker, caption,
                              extract_extracted_by(caption))

-----------------------------------------------------------------------------
(* C5 *)

AppendsAtMost ==
    \/ store' = store
    \/ /\ Len(store') = Len(store) + 1
       /\ SubSeq(store', 1, Len(store)) = store

\* C5: every step of every handler leaves the stored records as they are,
\* or appends one record behind them.
C5_AppendOnly == [][AppendsAtMost]_vars

\* A command ran over a store of several records.
C5_Witness ==
    /\ Len(store) >= 2
    /\ lastOp = "post_summary"
    /\ sent # <<>>

-----------------------------------------------------------------------------
(* C6 *)

VideoMarkerOnly(caption) ==
    HasMarker(VideoTitleMarker, caption) /\ ~HasMarker(PdfTitleMarker, caption)

TextAfterVideoMarker(caption) ==
    {k \in (FirstMarker(VideoTitleMarker, caption) + 1)..Len(caption) :
        ~IsSpace(caption[k])}

-----------------------------------------------------------------------------
(* C7 *)

FileTypes == {"", "video", "pdf"}

NewestFirst(rows) ==
    \A i, j \in 1..Len(rows) :
        i < j => \/ rows[i].timestamp > rows[j].timestamp
                 \/ /\ rows[i].timestamp = rows[j].timestamp
                    /\ rows[i].id > rows[j].id

\* C7: whatever get_media_files returns, with a kind filter or without, is
\* in descending createdAt order, and rows of equal createdAt are in
\* descending id order.
C7_NewestFirstTiesById ==
    lastOp \in Commands =>
        \A file_type \in FileTypes :
            \A rows \in get_media_files(file_type) : NewestFirst(rows)

-----------------------------------------------------------------------------
(* C8 *)

\* the ways of listing rows by non-increasing timestamp
RecencyOrders(rows) ==
    {p \in Permutations(1..Len(rows)) :
        \A j \in 1..(Len(rows) - 1) :
            rows[p[j]].timestamp >= rows[p[j + 1]].timestamp}

\* text is the listing of rows: a title line and a blank line, then for
\* each row, in a recency order, its link line, its course line and a blank
\* line, and nothing else.
IsListingOf(text, title_kind, rows) ==
    /\ Len(text) = 2 + 3 * Len(rows)
    /\ text[1].kind = title_kind
    /\ text[2] = Blank
    /\ \E p \in RecencyOrders(rows) :
          \A j \in 1..Len(rows) :
              /\ text[3 * j] = Line("entry", rows[p[j]].title, rows[p[j]].message_id)
              /\ text[3 * j + 1] = Line("course", rows[p[j]].course, 0)
              /\ text[3 * j + 2] = Blank

ListingDelivered(op) ==
    lastOp = op /\ user = ADMIN_ID /\ ~raised

-----------------------------------------------------------------------------
(* C9 *)

\* the lines of text that open a course block
BlockHeaders(text) == {h \in 1..Len(text) : text[h].kind = "course_header"}

\* the blank line that closes the block opened at h
BlockEnd(text, h) ==
    CHOOSE e \in (h + 1)..Len(text) :
        /\ text[e] = Blank
        /\ \A k \in (h + 1)..(e - 1) : text[k] # Blank

\* the entry lines under the sub-list header of the given kind in the block
\* opened at h; none when the block has no such header
EntriesUnder(text, h, header_kind) ==
    LET e == BlockEnd(text, h)
        at == {i \in (h + 1)..(e - 1) : text[i].kind = header_kind}
    IN  IF at = {} THEN <<>>
        ELSE LET first == CHOOSE i \in at : TRUE
                 stop == CHOOSE t \in (first + 1)..e :
                            /\ text[t].kind # "entry"
                            /\ \A k \in (first + 1)..(t - 1) : text[k].kind = "entry"
             IN  SubSeq(text, first + 1, stop - 1)

Min(a, b) == IF a < b THEN a ELSE b

\* entries are the first Min(SummaryCap, Len(rows)) of rows in a recency order
FirstOfRecency(entries, rows) ==
    /\ Len(entries) = Min(SummaryCap, Len(rows))
    /\ \E p \in RecencyOrders(rows) :
          \A j \in 1..Len(entries) :
              entries[j] = Line("entry", rows[p[j]].title, rows[p[j]].message_id)

-----------------------------------------------------------------------------
(* C10 *)

\* C10: over an empty store post_summary by the admin replies with the
\* fixed "no media files" text and sends nothing to the channel; over a
\* store without videos (documents) get_videos (get_pdfs) replies with the
\* fixed "no videos" ("no PDFs") text.
C10_FixedTextWhenNothingFound ==
    /\ (lastOp = "post_summary" /\ user = ADMIN_ID /\ store = <<>>) =>
          /\ replies = <<Fixed("No media files found in database.")>>
          /\ sent = <<>>
    /\ (lastOp = "get_videos" /\ user = ADMIN_ID /\ RowsOfType("video") = <<>>) =>
          replies = <<Fixed("No videos found in database.")>>
    /\ (lastOp = "get_pdfs" /\ user = ADMIN_ID /\ RowsOfType("pdf") = <<>>) =>
          replies = <<Fixed("No PDFs found in database.")>>

\* get_videos ran over a store that holds documents only.
C10_Witness ==
    /\ lastOp = "get_videos"
    /\ user = ADMIN_ID
    /\ store # <<>>
    /\ RowsOfType("video") = <<>>
    /\ replies = <<Fixed("No videos found in database.")>>

-----------------------------------------------------------------------------
(* C12 *)

\* C12: a channel message that carries neither a video nor a document never
\* causes a store write, whatever its caption holds: after it is processed
\* the store has no row, no id was assigned, no "Stored" entry was logged
\* and the handler returned normally.  The text the bot posts to the channel
\* arrives as such a message (a text message has no caption and no payload).
C12_NoPayloadNoWrite ==
    (JustProcessed /\ ~Admitted(message.val))
        => (store = <<>> /\ seq = 0 /\ ~logged /\ ~raised)

\* a message without payload whose caption yields a title was processed
C12_Witness ==
    /\ JustProcessed
    /\ ~Admitted(message.val)
    /\ Truthy(extract_title(CaptionOf(message.val)))

-----------------------------------------------------------------------------
(* C13 *)

MediaKinds == {"video", "pdf"}

\* C13: the kind and the file id of a created record come from the payload
\* alone, never from the title marker that matched: with a video payload the
\* record is a "video" with the video's file id, also when a document is
\* attached too; otherwise it is a "pdf" with the document's file id.  Every
\* stored kind is "video" or "pdf".
C13_KindAndReferenceFromPayload ==
    (JustProcessed /\ store # <<>>) =>
        LET m == message.val
            r == store[Len(store)]
        IN  /\ r.file_type \in MediaKinds
            /\ m.video.some =>
                   (r.file_type = "video" /\ r.file_id = m.video.val)
            /\ ~m.video.some =>
                   (r.file_type = "pdf" /\ r.file_id = m.document.val)

\* a record was created from a message that carries both payloads and whose
\* title came from the document-title marker
C13_Witness ==
    /\ JustProcessed
    /\ store # <<>>
    /\ message.val.video.some /\ message.val.document.some
    /\ ~HasMarker(VideoTitleMarker, CaptionOf(message.val))
    /\ HasMarker(PdfTitleMarker, CaptionOf(message.val))

-----------------------------------------------------------------------------
(* C15 *)

\* The rendering command that ran last had records to render and its text
\* was not delivered: the outgoing send failed.
SendFailed ==
    /\ user = ADMIN_ID
    /\ \/ lastOp = "post_summary" /\ store # <<>> /\ sent = <<>>
       \/ /\ lastOp = "get_videos" /\ RowsOfType("video") # <<>>
          /\ \A i \in 1..Len(replies) : replies[i][1].kind # "all_videos_title"
       \/ /\ lastOp = "get_pdfs" /\ RowsOfType("pdf") # <<>>
          /\ \A i \in 1..Len(replies) : replies[i][1].kind # "all_pdfs_title"

\* C15: when the outgoing send of the text rendered by post_summary,
\* get_videos or get_pdfs fails, the operator receives a failed-action
\* message, the handler completes without raising, and the store is
\* unchanged.
C15_SendFailureReported ==
    [][SendFailed' => (replies' # <<>> /\ ~raised' /\ store' = store)]_vars

-----------------------------------------------------------------------------
(* C16 *)

\* How the processing of a qualifying message can end: the record is stored
\* and logged and the handler returns, or the handler raises without the
\* log entry.  It never returns normally without the record.
StoredOrRaised ==
    (JustProcessed /\ Qualifies(message.val)) =>
        \/ raised /\ ~logged
        \/ /\ ~raised /\ logged
           /\ store # <<>>
           /\ store[Len(store)].message_id = message.val.id

\* A handler that raises leaves the store as it found it.
RaiseLeavesStore ==
    [][(lastOp' = "process" /\ raised') => (store' = store /\ seq' = seq)]_vars

\* C16: if the store is unavailable when a qualifying message is processed,
\* process_channel_message ends by raising to its caller: it does not return
\* normally, it does not log "Stored", and it leaves no record, whole or
\* partial, in the store.
C16_StoreFailurePropagates == []StoredOrRaised /\ RaiseLeavesStore

\* a qualifying message met an unavailable store that already held records
C16_Witness ==
    /\ JustProcessed
    /\ Qualifies(message.val)
    /\ raised
    /\ store # <<>>

-----------------------------------------------------------------------------
(* C17 *)

\* C17: for every caption that holds both the video-title marker and the
\* document-title marker, whichever comes first and whatever payload the
\* message carries, extract_title returns the trimmed remainder of the
\* line of the video-title marker.
C17_VideoMarkerLineWins ==
    (/\ JustProcessed
     /\ HasMarker(VideoTitleMarker, CaptionOf(message.val))
     /\ HasMarker(PdfTitleMarker, CaptionOf(message.val))) =>
        LET caption == CaptionOf(message.val)
        IN  extract_title(caption) =
                Some(TrimmedRestOfLine(caption, FirstMarker(VideoTitleMarker, caption)))

-----------------------------------------------------------------------------
(* C18 *)

NotAuthorized(op) ==
    IF op = "start" THEN Fixed("You are not authorized to use this bot.")
    ELSE Fixed("You are not authorized to use this command.")

\* C18: a command (start, post_summary, get_videos, get_pdfs) issued by a
\* user whose id is not the admin's reads nothing from the store, sends
\* nothing to the channel and replies with the fixed "not authorized" text
\* only, so no stored title, course or message id reaches that user.
C18_NonAdminGetsNothing ==
    (lastOp \in Commands /\ user # ADMIN_ID) =>
        /\ ~queried
        /\ sent = <<>>
        /\ replies = <<NotAuthorized(lastOp)>>
        /\ ~raised

\* a user other than the admin asked for the videos of a store that has some
C18_Witness ==
    /\ lastOp = "get_videos"
    /\ user \in Users \ {ADMIN_ID}
    /\ RowsOfType("video") # <<>>

-----------------------------------------------------------------------------
(* C14 *)

\* the courses of the block headers of text, in the order of the text
BlockCourses(text) ==
    LET IsHeader(l) == l.kind = "course_header"
        headers == SelectSeq(text, IsHeader)
    IN  [i \in 1..Len(headers) |-> headers[i].text]

\* the place of the first record of the course in files
FirstAt(files, course) ==
    CHOOSE i \in 1..Len(files) :
        /\ files[i].course = course
        /\ \A k \in 1..(i - 1) : files[k].course # course

\* keys holds every course of files once, in the order of first encounter
FirstSeenOrder(keys, files) ==
    /\ {keys[i] : i \in 1..Len(keys)} = {files[j].course : j \in 1..Len(files)}
    /\ \A i, j \in 1..Len(keys) :
          i < j => FirstAt(files, keys[i]) < FirstAt(files, keys[j])

\* the lines of the given kind inside the block opened at h
LinesOfKind(text, h, kind) ==
    {i \in (h + 1)..(BlockEnd(text, h) - 1) : text[i].kind = kind}

\* C14: the text post_summary sends has exactly one block for every
\* distinct course of the store, the blocks stand in the order in which
\* the courses are first met in the retrieved records, every entry of a
\* block belongs to a record of the block's course, and a block has its
\* Videos sub-list exactly when the course has a video, its PDFs sub-list
\* exactly when it has a document, the Videos sub-list first.
C14_OneBlockPerCourseInFirstSeenOrder ==
    (lastOp = "post_summary" /\ sent # <<>>) =>
        LET text == sent[1]
        IN  /\ \E files \in get_media_files("") :
                  FirstSeenOrder(BlockCourses(text), files)
            /\ \A h \in BlockHeaders(text) :
                  LET rows == FilesOfCourse(store, text[h].text)
                      videoHeaders == LinesOfKind(text, h, "videos_header")
                      pdfHeaders == LinesOfKind(text, h, "pdfs_header")
                  IN  /\ \A i \in LinesOfKind(text, h, "entry") :
                            \E j \in 1..Len(rows) : text[i] = EntryLine(rows[j])
                      /\ Cardinality(videoHeaders) =
                            (IF OfType(rows, "video") # <<>> THEN 1 ELSE 0)
                      /\ Cardinality(pdfHeaders) =
                            (IF OfType(rows, "pdf") # <<>> THEN 1 ELSE 0)
                      /\ \A v \in videoHeaders : \A p \in pdfHeaders : v < p

\* a summary of two courses was sent, one of the courses holding a video and
\* a document, the other documents only
C14_Witness ==
    /\ lastOp = "post_summary"
    /\ sent # <<>>
    /\ Len(BlockCourses(sent[1])) = 2
    /\ \E h \in BlockHeaders(sent[1]) :
          /\ LinesOfKind(sent[1], h, "videos_header") # {}
          /\ LinesOfKind(sent[1], h, "pdfs_header") # {}
    /\ \E h \in BlockHeaders(sent[1]) :
          LinesOfKind(sent[1], h, "videos_header") = {}

-----------------------------------------------------------------------------
(* C11 *)

\* the six fields of r are the arguments of an insert
CompleteRecord(r) ==
    \E m \in TxnCatalog :
        [message_id |-> r.message_id, file_type |-> r.file_type,
         title |-> r.title, course |-> r.course,
         extracted_by |-> r.extracted_by, file_id |-> r.file_id] = InsertArgs(m)

\* C11: however the statements of store_media_data interleave with the
\* reads of get_media_files, every record a read returns is a record of
\* the store written by a committed insert, with the six fields passed to
\* that insert; it is never the row of an insert that has not committed.
C11_ReadsSeeCommittedRecordsOnly ==
    \A i \in 1..Len(fetched) :
        /\ \E j \in 1..Len(store) : store[j] = fetched[i]
        /\ CompleteRecord(fetched[i])
        /\ \A k \in 1..Len(pending) : pending[k] # fetched[i]

\* a read returned records while the row of an insert was not committed
C11_Witness ==
    /\ queried
    /\ pending # <<>>
    /\ fetched # <<>>

-----------------------------------------------------------------------------
(* C19 *)

\* C19: in every execution of TelegramBot.run, init_db has completed before
\* the monitor can deliver a message to process_channel_message and before
\* a command handler can run: while the table does not exist the monitor's
\* client has not started, the poller does not run, and no handler has run,
\* so no insert and no read meets a store without its table.
C19_SchemaBeforeHandlers ==
    ~boot.table =>
        /\ boot.monitor # "started"
        /\ boot.pc # "polling"
        /\ lastOp = "none"
        /\ store = <<>> /\ ~queried

\* after startup a message was stored and a command read it back
C19_Witness ==
    /\ boot.pc = "polling"
    /\ boot.monitor = "started"
    /\ lastOp = "get_videos"
    /\ queried
    /\ store # <<>>

====
